---- MODULE Spec2Model ----
(***************************************************************************)
(* Google Photos Timestamp Updater (google_photos_timestamp_updater.py).   *)
(*                                                                         *)
(* The tool walks a folder, pairs every "<media>.supplemental-metadata.json"*)
(* sidecar with its media file and sets the media file's access and        *)
(* modification time to the sidecar's photoTakenTime.  The model keeps the *)
(* file system (which files exist, their content, permissions and times),  *)
(* the program counter of main and of the per-sidecar pipeline, the        *)
(* ProcessingResult accumulator, and what the run printed and returned.    *)
(* A path is a sequence of name parts, so that the suffix test and the     *)
(* suffix removal are the string operations of the code.                   *)
(***************************************************************************)
EXTENDS Integers, Sequences, FiniteSets, TLC

VARIABLES
    root_status,       \* what the folder argument is: ok, missing, notdir, noread, nowrite
    sub_readable,      \* whether the sub-directory of the root can be listed
    log_creatable,     \* whether logging.FileHandler can create the log file
    files,             \* the file system: path -> [doc, perm, atime, mtime]
    pc,                \* main's position
    stage,             \* position inside process_single_metadata_file
    idx,               \* enumerate index i of process_all_metadata_files (1-based)
    metadata_files,    \* scan_directory's first result
    media_files,       \* scan_directory's second result
    orphaned_media,    \* detect_orphaned_media_files' result
    processing_result, \* the ProcessingResult accumulator
    timestamp,         \* local of process_single_metadata_file (Optional[int])
    media_file_path,   \* local of process_single_metadata_file
    update_ok,         \* what update_file_timestamps returned
    exit_code,         \* the process exit status (-1 while running)
    console,           \* what main printed, in order
    file_state,        \* per sidecar index: the pipeline states it went through
    writes,            \* every os.utime call that set times: [path, time], in order
    scan_skipped,      \* directories whose listing failed during the walk
    interrupted,       \* whether a KeyboardInterrupt was delivered
    arg,               \* argument of the function applied by a unit specification
    ret                \* its result

vars == <<root_status, sub_readable, log_creatable, files, pc, stage, idx, metadata_files,
          media_files, orphaned_media, processing_result, timestamp,
          media_file_path, update_ok, exit_code, console, file_state, writes,
          scan_skipped, interrupted, arg, ret>>

(***************************************************************************)
(* Bounds of the model.                                                    *)
(***************************************************************************)
\* Most files a tree holds before the run.
MaxFiles == 3
\* Most things wrong in one run: a bad sidecar, a protected file, an
\* unreadable directory, a bad folder argument, a log file that cannot be
\* created, an exception no step of the pipeline handles itself.
MaxFaults == 1
\* How far the clock may advance during a run, in seconds.
MaxTick == 1
\* Longest list process_all_metadata_files is called with on its own.
MaxList == 2
\* Most name parts of a path handed to get_corresponding_media_file on its
\* own.
MaxPathLen == 3

(***************************************************************************)
(* Program constants.                                                      *)
(***************************************************************************)
\* min_timestamp, January 1, 1990.
MinTimestamp == 631152000
\* The year added to the clock for max_timestamp.
SecondsPerYear == 365 * 24 * 60 * 60
\* The clock when the run starts: 2025-11-05T00:00:00Z.
Now0 == 1762300800
\* The photoTakenTime of the sample sidecar of the tests.
SampleTimestamp == 1571673729
\* sys.exit's argument when an update failed, on an interrupt, on a runtime
\* error, and when the folder argument is rejected.
FailedUpdatesExitCode == 1
\* The status shells give a process ended by SIGINT.
ShellInterruptExitCode == 128 + 2
InterruptExitCode == 1
RuntimeErrorExitCode == 1
InvalidPathExitCode == 1
\* The times every file carries after the export.
ExportTime == Now0 - 3600

\* metadata_suffix, ".supplemental-metadata.json", as name parts.
Suffix == <<".supplemental-metadata", ".json">>

(***************************************************************************)
(* Strings.                                                                *)
(***************************************************************************)
\* str.endswith
EndsWith(s, suf) ==
    /\ Len(s) >= Len(suf)
    /\ SubSeq(s, Len(s) - Len(suf) + 1, Len(s)) = suf

\* s[:-n] for n > 0: the empty string when s is not longer than n.
DropLast(s, n) == IF Len(s) > n THEN SubSeq(s, 1, Len(s) - n) ELSE <<>>

Last(seq) == seq[Len(seq)]

\* os.path.join(root, file)
PathJoin(dir, file) == dir \o <<"/">> \o file

DigitChars == <<"0", "1", "2", "3", "4", "5", "6", "7", "8", "9">>

DigitValue(c) == CHOOSE d \in 0..9 : DigitChars[d + 1] = c

IsDigit(c) == \E d \in 0..9 : DigitChars[d + 1] = c

\* str(n) of a non-negative integer, one part per character.
RECURSIVE NatToStr(_)
NatToStr(n) ==
    IF n < 10 THEN <<DigitChars[n + 1]>>
    ELSE Append(NatToStr(n \div 10), DigitChars[(n % 10) + 1])

\* str(n)
IntToStr(n) == IF n < 0 THEN <<"-">> \o NatToStr(0 - n) ELSE NatToStr(n)

RECURSIVE DigitsValue(_)
DigitsValue(s) ==
    IF s = <<>> THEN 0
    ELSE 10 * DigitsValue(SubSeq(s, 1, Len(s) - 1)) + DigitValue(s[Len(s)])

\* int(text): an optional sign and at least one digit; ValueError otherwise.
ParseInt(text) ==
    LET signed == text # <<>> /\ text[1] \in {"-", "+"}
        digits == IF signed THEN Tail(text) ELSE text
    IN  IF digits # <<>> /\ \A k \in 1..Len(digits) : IsDigit(digits[k])
        THEN [ok |-> TRUE,
              value |-> IF signed /\ text[1] = "-"
                        THEN 0 - DigitsValue(digits) ELSE DigitsValue(digits)]
        ELSE [ok |-> FALSE, value |-> 0]

(***************************************************************************)
(* Optional[int].                                                          *)
(***************************************************************************)
None == [is_none |-> TRUE, value |-> 0]
Some(v) == [is_none |-> FALSE, value |-> v]

(***************************************************************************)
(* The file system.                                                        *)
(***************************************************************************)
\* args.folder_path and its one sub-directory.
RootDir == <<"/export">>
SubDir == PathJoin(RootDir, <<"album">>)
Dirs == {RootDir, SubDir}

\* A path that names a directory (with or without a trailing separator).
IsDir(p) == \E d \in Dirs : p = d \/ p = d \o <<"/">>

\* The log file name of create_log_filename: prefix, strftime stamp, ".log".
LogName == <<"google_photos_timestamp_updater_", "20251105_000000", ".log">>
LogPath == PathJoin(RootDir, LogName)

NameA == <<"a", ".jpg">>
NameB == <<"b", ".jpg">>
NameC == <<"c", ".jpg">>

\* The directory entries a tree may hold, in the order the walk lists them:
\* the root's entries, then the sub-directory's.  b.jpg itself is never
\* there: its sidecar is the one whose media file was deleted.  a.json is a
\* metadata document whose name lacks the sidecar suffix, and the last
\* entry carries the suffix in another case.
Candidates ==
    << [dir |-> RootDir, name |-> NameB \o Suffix],
       [dir |-> RootDir, name |-> NameA],
       [dir |-> RootDir, name |-> <<"a", ".json">>],
       [dir |-> RootDir, name |-> NameA \o Suffix],
       [dir |-> RootDir, name |-> NameA \o Suffix \o Suffix],
       [dir |-> RootDir, name |-> LogName],
       [dir |-> SubDir, name |-> NameC],
       [dir |-> SubDir, name |-> NameC \o Suffix],
       [dir |-> SubDir, name |-> NameC \o <<".supplemental-metadata", ".JSON">>] >>

PathOf(c) == PathJoin(c.dir, c.name)

\* Content of a file as parse_metadata_file sees it: whether json.load
\* accepts it, what 'photoTakenTime' is, what its 'timestamp' is, and the
\* timestamp's text when it is a string.
DocOf(n) == [json |-> TRUE, ptt |-> "dict", ts |-> "str", text |-> IntToStr(n)]
NotJson == [json |-> FALSE, ptt |-> "absent", ts |-> "absent", text |-> <<>>]

\* A file as the export left it.
NewFile(doc, perm) ==
    [doc |-> doc, perm |-> perm, atime |-> ExportTime, mtime |-> ExportTime]

\* os.path.exists
PathExists(fs, p) == p \in DOMAIN fs \/ IsDir(p)

\* os.path.isfile
IsFile(fs, p) == p \in DOMAIN fs

\* os.access(p, os.R_OK) of an existing file
CanRead(fs, p) == fs[p].perm # "unreadable"

\* Whether os.utime(p, times) is permitted: explicit times need ownership.
CanSetTimes(fs, p) == fs[p].perm = "owned"

(***************************************************************************)
(* os.walk(root_path) with the default onerror=None: a directory whose     *)
(* listing fails is skipped without an exception.  One entry per directory *)
(* listed: (root, files).                                                  *)
(***************************************************************************)
Listing(fs, dir) ==
    LET Here(c) == c.dir = dir /\ PathOf(c) \in DOMAIN fs
        present == SelectSeq(Candidates, Here)
    IN  [k \in 1..Len(present) |-> present[k].name]

Walk(fs, subReadable) ==
    <<[root |-> RootDir, files |-> Listing(fs, RootDir)]>>
    \o (IF subReadable
        THEN <<[root |-> SubDir, files |-> Listing(fs, SubDir)]>>
        ELSE <<>>)

\* The directories the walk could not list.
WalkSkipped(subReadable) == IF subReadable THEN {} ELSE {SubDir}

(***************************************************************************)
(* The program's functions.                                                *)
(***************************************************************************)
\* A result constructed without the length of the list.
NewProcessingResultUncounted(n) ==
    [total_metadata_files |-> 0, successful_updates |-> 0, failed_updates |-> 0,
     media_without_metadata |-> 0, errors |-> <<>>]

\* ProcessingResult(...) as process_all_metadata_files constructs it.
NewProcessingResult(n) ==
    [total_metadata_files |-> n, successful_updates |-> 0, failed_updates |-> 0,
     media_without_metadata |-> 0, errors |-> <<>>]

\* An error string: its fixed text and the path formatted into it.
Error(text, path) == [text |-> text, path |-> path]

\* A classification by the extension alone: every .json file a sidecar.
RECURSIVE ClassifyFilesByExtension(_, _, _)
ClassifyFilesByExtension(root, names, acc) ==
    IF names = <<>> THEN acc
    ELSE LET file == Head(names)
             file_path == PathJoin(root, file)
         IN  ClassifyFilesByExtension(root, Tail(names),
                 IF EndsWith(file, <<".json">>)
                 THEN [acc EXCEPT !.metadata_files = Append(@, file_path)]
                 ELSE [acc EXCEPT !.media_files = Append(@, file_path)])

\* scan_directory's loop over one directory's files: the name decides.
RECURSIVE ClassifyFiles(_, _, _)
ClassifyFiles(root, names, acc) ==
    IF names = <<>> THEN acc
    ELSE LET file == Head(names)
             file_path == PathJoin(root, file)
         IN  ClassifyFiles(root, Tail(names),
                 IF EndsWith(file, Suffix)
                 THEN [acc EXCEPT !.metadata_files = Append(@, file_path)]
                 ELSE [acc EXCEPT !.media_files = Append(@, file_path)])

\* scan_directory's loop over os.walk.
RECURSIVE ScanWalk(_, _)
ScanWalk(walk, acc) ==
    IF walk = <<>> THEN acc
    ELSE ScanWalk(Tail(walk), ClassifyFiles(Head(walk).root, Head(walk).files, acc))

scan_directory(fs, subReadable) ==
    ScanWalk(Walk(fs, subReadable), [metadata_files |-> <<>>, media_files |-> <<>>])

\* What parse_metadata_file does: the value it returns and the message it
\* hands to log_error ("" when it returns a timestamp).
Parsed(n) == [timestamp |-> Some(n), logged |-> ""]
ParseFailure(message) == [timestamp |-> None, logged |-> message]

\* A parser without the two type checks: int() is applied to whatever the
\* 'timestamp' entry holds.
parse_metadata_untyped(fs, file_path) ==
    IF file_path \notin DOMAIN fs THEN ParseFailure("Metadata file not found")
    ELSE IF ~CanRead(fs, file_path)
         THEN ParseFailure("Permission denied reading metadata file")
    ELSE LET doc == fs[file_path].doc
         IN  IF ~doc.json THEN ParseFailure("Invalid JSON format in metadata file")
             ELSE IF doc.ptt = "absent"
                  THEN ParseFailure("Missing 'photoTakenTime' field")
             ELSE IF doc.ts = "absent"
                  THEN ParseFailure("Missing 'timestamp' field in photoTakenTime")
             ELSE IF ParseInt(doc.text).ok
                  THEN Parsed(ParseInt(doc.text).value)
                  ELSE ParseFailure("Failed to convert timestamp")

\* A parser that looks for the 'timestamp' entry before it has checked that
\* 'photoTakenTime' is an object.
parse_metadata_reordered(fs, file_path) ==
    IF file_path \notin DOMAIN fs THEN ParseFailure("Metadata file not found")
    ELSE IF ~CanRead(fs, file_path)
         THEN ParseFailure("Permission denied reading metadata file")
    ELSE LET doc == fs[file_path].doc
         IN  IF ~doc.json THEN ParseFailure("Invalid JSON format in metadata file")
             ELSE IF doc.ptt = "absent"
                  THEN ParseFailure("Missing 'photoTakenTime' field")
             ELSE IF doc.ts = "absent"
                  THEN ParseFailure("Missing 'timestamp' field in photoTakenTime")
             ELSE IF doc.ptt # "dict"
                  THEN ParseFailure("Invalid 'photoTakenTime' format (not a dict)")
             ELSE IF doc.ts # "str"
                  THEN ParseFailure("Invalid timestamp format (not a string)")
             ELSE IF ParseInt(doc.text).ok
                  THEN Parsed(ParseInt(doc.text).value)
                  ELSE ParseFailure("Failed to convert timestamp")

\* The body of parse_metadata_file: open and json.load, then the checks on
\* the document, each with its own log_error message and return None.
parse_metadata_outcome(fs, file_path) ==
    IF file_path \notin DOMAIN fs THEN ParseFailure("Metadata file not found")
    ELSE IF ~CanRead(fs, file_path)
         THEN ParseFailure("Permission denied reading metadata file")
    ELSE LET doc == fs[file_path].doc
         IN  IF ~doc.json THEN ParseFailure("Invalid JSON format in metadata file")
             ELSE IF doc.ptt = "absent"
                  THEN ParseFailure("Missing 'photoTakenTime' field")
             ELSE IF doc.ptt # "dict"
                  THEN ParseFailure("Invalid 'photoTakenTime' format (not a dict)")
             ELSE IF doc.ts = "absent"
                  THEN ParseFailure("Missing 'timestamp' field in photoTakenTime")
             ELSE IF doc.ts # "str"
                  THEN ParseFailure("Invalid timestamp format (not a string)")
             ELSE IF ParseInt(doc.text).ok
                  THEN Parsed(ParseInt(doc.text).value)
                  ELSE ParseFailure("Failed to convert timestamp")

\* parse_metadata_file: the timestamp, or None after any of its failures.
parse_metadata_file(fs, file_path) == parse_metadata_outcome(fs, file_path).timestamp

\* The validation with both range tests off by one.
convert_timestamp_strict_bounds(t, current_time) ==
    LET max_timestamp == current_time + SecondsPerYear
        min_timestamp == MinTimestamp
    IN  IF t <= 0 THEN [ok |-> FALSE, value |-> 0, error |-> "must be positive"]
        ELSE IF t >= max_timestamp
             THEN [ok |-> FALSE, value |-> 0, error |-> "too far in the future"]
        ELSE IF t <= min_timestamp
             THEN [ok |-> FALSE, value |-> 0, error |-> "too old"]
        ELSE [ok |-> TRUE, value |-> t, error |-> ""]

\* convert_timestamp_for_file_operations, current_time being its clock
\* reading: the timestamp, or the ValueError it raises.
convert_timestamp_for_file_operations(t, current_time) ==
    LET max_timestamp == current_time + SecondsPerYear
        min_timestamp == MinTimestamp
    IN  IF t <= 0 THEN [ok |-> FALSE, value |-> 0, error |-> "must be positive"]
        ELSE IF t > max_timestamp
             THEN [ok |-> FALSE, value |-> 0, error |-> "too far in the future"]
        ELSE IF t < min_timestamp
             THEN [ok |-> FALSE, value |-> 0, error |-> "too old"]
        ELSE [ok |-> TRUE, value |-> t, error |-> ""]

\* A resolution that looks at the extension only and strips just that.
get_media_file_by_extension(metadata_path) ==
    IF ~EndsWith(metadata_path, <<".json">>)
    THEN [ok |-> FALSE, value |-> <<>>]
    ELSE [ok |-> TRUE, value |-> DropLast(metadata_path, 1)]

\* A resolution that strips the suffix as often as the path ends with it.
RECURSIVE StripEverySuffix(_)
StripEverySuffix(path) ==
    IF EndsWith(path, Suffix) THEN StripEverySuffix(DropLast(path, Len(Suffix)))
    ELSE path

get_media_file_stripping_every_suffix(metadata_path) ==
    IF ~EndsWith(metadata_path, Suffix)
    THEN [ok |-> FALSE, value |-> <<>>]
    ELSE [ok |-> TRUE, value |-> StripEverySuffix(metadata_path)]

\* get_corresponding_media_file: the media path, or the ValueError.
get_corresponding_media_file(metadata_path) ==
    IF ~EndsWith(metadata_path, Suffix)
    THEN [ok |-> FALSE, value |-> <<>>]
    ELSE [ok |-> TRUE, value |-> DropLast(metadata_path, Len(Suffix))]

\* A verification that accepts every path.
verify_media_file_unchecked(fs, p) == TRUE

\* verify_media_file_exists
verify_media_file_exists(fs, p) ==
    IF ~PathExists(fs, p) THEN FALSE
    ELSE IF ~IsFile(fs, p) THEN FALSE
    ELSE IF ~CanRead(fs, p) THEN FALSE
    ELSE TRUE

\* An orphan detection that compares the media paths with the sidecar paths
\* as they are, the suffix still on them.
detect_orphans_unstripped(metadata, media) ==
    LET expected_media_files == { metadata[k] : k \in 1..Len(metadata) }
        Orphan(media_file) == media_file \notin expected_media_files
    IN  SelectSeq(media, Orphan)

\* detect_orphaned_media_files
detect_orphaned_media_files(metadata, media) ==
    LET expected_media_files ==
            { DropLast(metadata[k], Len(Suffix)) :
                k \in { j \in 1..Len(metadata) : EndsWith(metadata[j], Suffix) } }
        Orphan(media_file) == media_file \notin expected_media_files
    IN  SelectSeq(media, Orphan)

\* An update that hands the timestamp to os.utime without validating it.
update_file_timestamps_unvalidated(fs, file_path, t, current_time) ==
    IF ~IsFile(fs, file_path)
    THEN [ok |-> FALSE, fs |-> fs, utime |-> <<>>, called |-> TRUE,
          caught |-> "FileNotFoundError"]
    ELSE IF ~CanSetTimes(fs, file_path)
         THEN [ok |-> FALSE, fs |-> fs, utime |-> <<>>, called |-> TRUE,
               caught |-> "PermissionError"]
    ELSE [ok |-> TRUE,
          fs |-> [fs EXCEPT ![file_path].atime = t, ![file_path].mtime = t],
          utime |-> <<[path |-> file_path, time |-> t]>>,
          called |-> TRUE, caught |-> ""]

\* An update that sets the times first and validates the timestamp after.
update_file_timestamps_validated_late(fs, file_path, t, current_time) ==
    LET v == convert_timestamp_for_file_operations(t, current_time)
        set == update_file_timestamps_unvalidated(fs, file_path, t, current_time)
    IN  IF set.ok /\ ~v.ok
        THEN [set EXCEPT !.ok = FALSE, !.caught = "ValueError"]
        ELSE set

\* update_file_timestamps, current_time being the clock reading of its
\* validation: what it returns, the file system it leaves, the os.utime
\* call that set times, if any, whether os.utime was called at all, and the
\* exception it caught.  Directories carry no times here, and no caller
\* passes one: the pipeline only passes a path that os.path.isfile accepted.
update_file_timestamps(fs, file_path, t, current_time) ==
    LET v == convert_timestamp_for_file_operations(t, current_time)
    IN  IF ~v.ok
        THEN [ok |-> FALSE, fs |-> fs, utime |-> <<>>, called |-> FALSE,
              caught |-> "ValueError"]
        ELSE IF ~IsFile(fs, file_path)
             THEN [ok |-> FALSE, fs |-> fs, utime |-> <<>>, called |-> TRUE,
                   caught |-> "FileNotFoundError"]
        ELSE IF ~CanSetTimes(fs, file_path)
             THEN [ok |-> FALSE, fs |-> fs, utime |-> <<>>, called |-> TRUE,
                   caught |-> "PermissionError"]
        ELSE [ok |-> TRUE,
              fs |-> [fs EXCEPT ![file_path].atime = v.value,
                                ![file_path].mtime = v.value],
              utime |-> <<[path |-> file_path, time |-> v.value]>>,
              called |-> TRUE, caught |-> ""]

(***************************************************************************)
(* The initial states: a tree of at most MaxFiles files with at most       *)
(* MaxFaults things wrong, the program about to check its argument.        *)
(***************************************************************************)
\* The entries a tree may hold before the run: all but the run's own log.
InitialEntries == { k \in 1..Len(Candidates) : Candidates[k].name # LogName }

IsSidecarName(k) == EndsWith(Candidates[k].name, Suffix)

\* A file that holds a metadata document.
IsDocument(k) == Last(Candidates[k].name) = ".json"

\* A sound file: a document with its own capture time, media owned by the
\* user.
SoundFiles ==
    [ k \in InitialEntries |->
        IF IsDocument(k) THEN NewFile(DocOf(SampleTimestamp + k), "owned")
        ELSE NewFile(NotJson, "owned") ]

SoundFile(k) == SoundFiles[k]

\* What may be wrong with a file.
FaultySidecars ==
    { NewFile(NotJson, "owned"),
      NewFile(DocOf(MinTimestamp - 1), "owned"),
      NewFile(DocOf(Now0 + SecondsPerYear + 1), "owned"),
      NewFile(DocOf(SampleTimestamp), "unreadable"),
      NewFile(DocOf(SampleTimestamp), "foreign") }

FaultyMedia == { NewFile(NotJson, "foreign"), NewFile(NotJson, "unreadable") }

FaultyFiles(k) == IF IsDocument(k) THEN FaultySidecars ELSE FaultyMedia

RootStatuses == {"ok", "missing", "notdir", "noread", "nowrite"}

TreeOf(present, faulty, g) ==
    [ p \in { PathOf(Candidates[k]) : k \in present } |->
        LET k == CHOOSE j \in present : PathOf(Candidates[j]) = p
        IN  IF k \in faulty THEN g[k] ELSE SoundFile(k) ]

NoArg == [t |-> 0, now |-> 0]
NoRet == [ok |-> FALSE, value |-> 0, error |-> "not called"]

\* Nothing has run yet.
Idle ==
    /\ stage = "none"
    /\ idx = 0
    /\ media_files = <<>>
    /\ orphaned_media = <<>>
    /\ processing_result = NewProcessingResult(0)
    /\ timestamp = None
    /\ media_file_path = <<>>
    /\ update_ok = FALSE
    /\ exit_code = -1
    /\ console = <<>>
    /\ file_state = <<>>
    /\ writes = <<>>
    /\ scan_skipped = {}
    /\ interrupted = FALSE

ProgramStart ==
    /\ pc = "validate"
    /\ metadata_files = <<>>
    /\ Idle

\* What is wrong outside the files.
EnvFaults ==
    (IF root_status = "ok" THEN 0 ELSE 1)
    + (IF sub_readable THEN 0 ELSE 1)
    + (IF log_creatable THEN 0 ELSE 1)

\* The files of the tree that are not sound.
FaultyPresent ==
    { k \in InitialEntries :
        /\ PathOf(Candidates[k]) \in DOMAIN files
        /\ \/ files[PathOf(Candidates[k])].doc # SoundFile(k).doc
           \/ files[PathOf(Candidates[k])].perm # SoundFile(k).perm }

Init ==
    /\ root_status \in RootStatuses
    /\ sub_readable \in BOOLEAN
    /\ log_creatable \in BOOLEAN
    /\ \E present \in SUBSET InitialEntries :
         /\ Cardinality(present) <= MaxFiles
         /\ \E faulty \in SUBSET present :
              /\ Cardinality(faulty) + EnvFaults <= MaxFaults
              /\ \E g \in [faulty -> FaultySidecars \cup FaultyMedia] :
                   /\ \A k \in faulty : g[k] \in FaultyFiles(k)
                   /\ files = TreeOf(present, faulty, g)
    /\ ProgramStart
    /\ arg = NoArg
    /\ ret = NoRet

(***************************************************************************)
(* main, up to the batch.                                                  *)
(***************************************************************************)
env == <<root_status, sub_readable, log_creatable>>
signal == <<interrupted>>
unit == <<arg, ret>>
scanned == <<metadata_files, media_files, orphaned_media, scan_skipped>>
locals == <<timestamp, media_file_path, update_ok>>

\* sys.exit(code), or main returning (code 0).
Exit(code) ==
    /\ exit_code' = code
    /\ pc' = "exited"

\* validate_path, test_read_access, test_write_access: exit 1 on the first
\* that fails.  The temporary file of the write test is gone when it returns.
ValidatePath ==
    /\ pc = "validate"
    /\ IF root_status # "ok"
       THEN /\ console' = Append(console, "path error")
            /\ Exit(InvalidPathExitCode)
       ELSE /\ console' = Append(console, "path validation successful")
            /\ pc' = "logging"
            /\ UNCHANGED exit_code
    /\ UNCHANGED <<env, signal, unit, files, stage, idx, scanned, processing_result,
                   locals, file_state, writes>>

\* create_log_filename and setup_logging: the log file is created in the
\* root folder, unless logging.FileHandler fails (console logging only).
SetupLogging ==
    /\ pc = "logging"
    /\ files' = IF log_creatable
             THEN [ p \in DOMAIN files \cup {LogPath} |->
                      IF p = LogPath
                      THEN [doc |-> NotJson, perm |-> "owned",
                            atime |-> Now0, mtime |-> Now0]
                      ELSE files[p] ]
             ELSE files
    /\ pc' = "scan"
    /\ UNCHANGED <<env, signal, unit, stage, idx, scanned, processing_result,
                   locals, exit_code, console, file_state, writes>>

\* The handler of 'except Exception' in main.
RuntimeErrorExit ==
    /\ console' = Append(console, "unexpected error")
    /\ Exit(RuntimeErrorExitCode)

\* Step 1 of main: scan_directory.  An OSError that escapes os.walk becomes
\* a RuntimeError, which main's handler turns into exit 1; no sidecar found
\* makes main return.
ScanDirectory ==
    /\ pc = "scan"
    /\ \/ /\ RuntimeErrorExit
          /\ UNCHANGED scanned
       \/ LET found == scan_directory(files, sub_readable)
          IN  /\ metadata_files' = found.metadata_files
              /\ media_files' = found.media_files
              /\ scan_skipped' = WalkSkipped(sub_readable)
              /\ UNCHANGED orphaned_media
              /\ IF found.metadata_files = <<>>
                 THEN /\ console' = Append(console, "no metadata files")
                      /\ Exit(0)
                 ELSE /\ pc' = "orphans"
                      /\ UNCHANGED <<console, exit_code>>
    /\ UNCHANGED <<env, signal, unit, files, stage, idx, processing_result, locals,
                   file_state, writes>>

\* Step 2 of main.
DetectOrphans ==
    /\ pc = "orphans"
    /\ orphaned_media' = detect_orphaned_media_files(metadata_files, media_files)
    /\ pc' = "batch_start"
    /\ UNCHANGED <<env, signal, unit, files, stage, idx, metadata_files, media_files,
                   scan_skipped, processing_result, locals, exit_code, console,
                   file_state, writes>>

(***************************************************************************)
(* process_all_metadata_files and process_single_metadata_file.            *)
(***************************************************************************)
\* process_all_metadata_files up to its loop.
BatchStart ==
    /\ pc = "batch_start"
    /\ processing_result' = NewProcessingResult(Len(metadata_files))
    /\ file_state' = [k \in 1..Len(metadata_files) |-> <<"PENDING">>]
    /\ idx' = 1
    /\ stage' = "parse"
    /\ pc' = "batch"
    /\ UNCHANGED <<env, signal, unit, files, scanned, locals, exit_code, console,
                   writes>>

InFile == pc = "batch" /\ idx <= Len(metadata_files)

metadata_file_path == metadata_files[idx]

\* The pipeline enters a state for the current sidecar.
Enter(state) == file_state' = [file_state EXCEPT ![idx] = Append(@, state)]

\* A failure counted without its error string.
CountFailureSilently(result, error) ==
    [result EXCEPT !.failed_updates = @ + 1]

\* One failure counted: failed_updates += 1 and errors.append(error).
CountFailure(result, error) ==
    [result EXCEPT !.failed_updates = @ + 1, !.errors = Append(@, error)]

\* A success that is not counted.
CountSuccessForgotten(result) == result

\* One success counted.
CountSuccess(result) == [result EXCEPT !.successful_updates = @ + 1]

\* The loop taking the same sidecar again.
NextFileRetries ==
    /\ idx' = idx
    /\ stage' = "parse"
    /\ timestamp' = None
    /\ media_file_path' = <<>>
    /\ update_ok' = FALSE

\* process_single_metadata_file returns and the loop takes the next sidecar.
NextFile ==
    /\ idx' = idx + 1
    /\ stage' = "parse"
    /\ timestamp' = None
    /\ media_file_path' = <<>>
    /\ update_ok' = FALSE

\* A return False of process_single_metadata_file.
FailFile(state, error) ==
    /\ processing_result' = CountFailure(processing_result, error)
    /\ Enter(state)
    /\ NextFile

\* Step 1: parse_metadata_file, whose log_error message goes to the console
\* (and the log file), and the branch on None.
ParseStage ==
    /\ InFile
    /\ stage = "parse"
    /\ LET parsed == parse_metadata_file(files, metadata_file_path)
           logged == parse_metadata_outcome(files, metadata_file_path).logged
       IN  IF parsed.is_none
           THEN /\ FailFile("PARSE_FAILED",
                            Error("Failed to parse metadata file: ", metadata_file_path))
                /\ console' = Append(console, logged)
           ELSE /\ timestamp' = parsed
                /\ Enter("PARSED")
                /\ stage' = "resolve"
                /\ UNCHANGED <<idx, processing_result, media_file_path, update_ok,
                               console>>
    /\ UNCHANGED <<env, signal, unit, files, pc, scanned, exit_code, writes>>

ResolveStage ==
    /\ InFile
    /\ stage = "resolve"
    /\ LET resolved == get_corresponding_media_file(metadata_file_path)
       IN  IF ~resolved.ok
           THEN FailFile("RESOLVE_FAILED",
                         Error("Invalid metadata file path ", metadata_file_path))
           ELSE /\ media_file_path' = resolved.value
                /\ Enter("RESOLVED")
                /\ stage' = "verify"
                /\ UNCHANGED <<idx, processing_result, timestamp, update_ok>>
    /\ UNCHANGED <<env, signal, unit, files, pc, scanned, exit_code, console, writes>>

VerifyStage ==
    /\ InFile
    /\ stage = "verify"
    /\ IF ~verify_media_file_exists(files, media_file_path)
       THEN FailFile("VERIFY_FAILED",
                     Error("Media file not found or not accessible: ", media_file_path))
       ELSE /\ Enter("VERIFIED")
            /\ stage' = "write"
            /\ UNCHANGED <<idx, processing_result, locals>>
    /\ UNCHANGED <<env, signal, unit, files, pc, scanned, exit_code, console, writes>>

\* The clock readings a call of datetime.now() may get during the run.
ClockReadings == Now0..(Now0 + MaxTick)

\* The call of update_file_timestamps.  It reads the clock when the
\* timestamp is positive.
WriteStage ==
    /\ InFile
    /\ stage = "write"
    /\ \E current_time \in (IF timestamp.value > 0 THEN ClockReadings ELSE {Now0}) :
         LET done == update_file_timestamps(files, media_file_path,
                                            timestamp.value, current_time)
         IN  /\ files' = done.fs
             /\ writes' = writes \o done.utime
             /\ update_ok' = done.ok
    /\ stage' = "count"
    /\ UNCHANGED <<env, signal, unit, pc, idx, scanned, processing_result, timestamp,
                   media_file_path, exit_code, console, file_state>>

\* The branch on what update_file_timestamps returned.
CountStage ==
    /\ InFile
    /\ stage = "count"
    /\ IF update_ok
       THEN /\ processing_result' = CountSuccess(processing_result)
            /\ Enter("WRITTEN")
            /\ NextFile
       ELSE FailFile("WRITE_FAILED",
                     Error("Failed to update timestamps for media file: ",
                           media_file_path))
    /\ UNCHANGED <<env, signal, unit, files, pc, scanned, exit_code, console, writes>>

\* The catch-all 'except Exception' of process_single_metadata_file: an
\* exception none of the steps handles, raised on entering a step.
UnexpectedText == "Unexpected error processing metadata file "

IsUnexpected(error) == error.text = UnexpectedText

\* What has gone wrong in the run so far.
Faults ==
    EnvFaults + Cardinality(FaultyPresent)
    + Len(SelectSeq(processing_result.errors, IsUnexpected))

UnexpectedException ==
    /\ InFile
    /\ stage \in {"parse", "resolve", "verify", "write"}
    /\ Faults < MaxFaults
    /\ FailFile("UNEXPECTED_FAILED", Error(UnexpectedText, metadata_file_path))
    /\ UNCHANGED <<env, signal, unit, files, pc, scanned, exit_code, console, writes>>

\* The loop is over: process_all_metadata_files returns its result.
BatchReturn ==
    /\ pc = "batch"
    /\ idx > Len(metadata_files)
    /\ stage' = "none"
    /\ pc' = "orphan_count"
    /\ UNCHANGED <<env, signal, unit, files, idx, scanned, processing_result,
                   locals, exit_code, console, file_state, writes>>

(***************************************************************************)
(* main, after the batch.                                                  *)
(***************************************************************************)
\* main stores the orphan count in the result.
SetOrphanCount ==
    /\ pc = "orphan_count"
    /\ processing_result' =
         [processing_result EXCEPT !.media_without_metadata = Len(orphaned_media)]
    /\ pc' = "summary"
    /\ UNCHANGED <<env, signal, unit, files, stage, idx, scanned, locals,
                   exit_code, console, file_state, writes>>

\* A summary that is printed only when no update failed.
SummaryOnlyOnSuccess ==
    /\ pc = "summary"
    /\ console' = IF processing_result.failed_updates = 0
                  THEN Append(console, "summary")
                  ELSE console
    /\ pc' = "exit"
    /\ UNCHANGED <<env, signal, unit, files, stage, idx, scanned, processing_result,
                   locals, exit_code, file_state, writes>>

\* Step 4 of main: log_processing_summary and the console summary.
Summary ==
    /\ pc = "summary"
    /\ console' = Append(console, "summary")
    /\ pc' = "exit"
    /\ UNCHANGED <<env, signal, unit, files, stage, idx, scanned, processing_result,
                   locals, exit_code, file_state, writes>>

\* An exit that does not look at failed_updates.
ExitDecisionIgnoresFailures ==
    /\ pc = "exit"
    /\ Exit(0)
    /\ UNCHANGED <<env, signal, unit, files, stage, idx, scanned, processing_result,
                   locals, console, file_state, writes>>

\* The exit code: 1 when an update failed, else main returns.
ExitDecision ==
    /\ pc = "exit"
    /\ IF processing_result.failed_updates > 0
       THEN Exit(FailedUpdatesExitCode)
       ELSE Exit(0)
    /\ UNCHANGED <<env, signal, unit, files, stage, idx, scanned, processing_result,
                   locals, console, file_state, writes>>

\* The positions of main inside its try block.
InTry ==
    pc \in {"scan", "orphans", "batch_start", "batch", "orphan_count", "summary",
            "exit"}

\* Python's exception classes: whether a handler for class cls catches exc.
IsSubclass(exc, cls) ==
    \/ cls = exc
    \/ cls = "BaseException"
    \/ cls = "Exception" /\ exc \in {"RuntimeError", "ValueError", "OSError"}

\* A catch-all that handles every exception, as a bare 'except:' does.
BareExceptHandlerClass == "BaseException"

\* The class that the catch-all of process_single_metadata_file handles.
PerFileHandlerClass == "Exception"

\* A KeyboardInterrupt is delivered while main is in its try block.  Inside
\* process_single_metadata_file it first passes that function's handler;
\* what that does not catch reaches main's 'except KeyboardInterrupt'.
Interrupt ==
    /\ InTry
    /\ interrupted' = TRUE
    /\ IF InFile /\ IsSubclass("KeyboardInterrupt", PerFileHandlerClass)
       THEN /\ FailFile("UNEXPECTED_FAILED",
                        Error(UnexpectedText, metadata_file_path))
            /\ UNCHANGED <<pc, exit_code, console>>
       ELSE /\ console' = Append(console, "interrupted by user")
            /\ Exit(InterruptExitCode)
            /\ UNCHANGED <<stage, idx, processing_result, locals, file_state>>
    /\ UNCHANGED <<env, unit, files, scanned, writes>>

Next ==
    \/ ValidatePath
    \/ SetupLogging
    \/ ScanDirectory
    \/ DetectOrphans
    \/ BatchStart
    \/ ParseStage
    \/ ResolveStage
    \/ VerifyStage
    \/ WriteStage
    \/ CountStage
    \/ UnexpectedException
    \/ BatchReturn
    \/ SetOrphanCount
    \/ Summary
    \/ ExitDecision
    \/ Interrupt

Spec == Init /\ [][Next]_vars

(***************************************************************************)
(* process_all_metadata_files on its own: called with any list of at most  *)
(* MaxList metadata documents of the root folder (named as sidecars or     *)
(* not, repeated or not, the sidecar whose media file is gone among them), *)
(* every entry of the root folder being there.                             *)
(***************************************************************************)
RootEntries == { k \in InitialEntries : Candidates[k].dir = RootDir }

BatchPaths == { PathOf(Candidates[k]) : k \in { j \in RootEntries : IsDocument(j) } }

Lists(paths) == UNION { [1..n -> paths] : n \in 0..MaxList }

InitBatch ==
    /\ root_status = "ok"
    /\ sub_readable = TRUE
    /\ log_creatable = TRUE
    /\ \E faulty \in SUBSET RootEntries :
         /\ Cardinality(faulty) <= MaxFaults
         /\ \E g \in [faulty -> FaultySidecars \cup FaultyMedia] :
              /\ \A k \in faulty : g[k] \in FaultyFiles(k)
              /\ files = TreeOf(RootEntries, faulty, g)
    /\ Idle
    /\ pc = "batch_start"
    /\ metadata_files \in Lists(BatchPaths)
    /\ arg = NoArg
    /\ ret = NoRet

NextBatch ==
    \/ BatchStart
    \/ ParseStage
    \/ ResolveStage
    \/ VerifyStage
    \/ WriteStage
    \/ CountStage
    \/ UnexpectedException
    \/ BatchReturn

SpecBatch == InitBatch /\ [][NextBatch]_vars

(***************************************************************************)
(* The timestamp validation on its own: the function applied to one        *)
(* candidate timestamp under one clock reading.                            *)
(***************************************************************************)
\* Clock readings: the run's, and clocks set before 1989, whose upper bound
\* lies below the lower one.
ConvertClocks ==
    {0, MinTimestamp - SecondsPerYear - 1, MinTimestamp - SecondsPerYear}
    \cup (Now0..(Now0 + MaxTick))

\* Candidate timestamps: around zero, around both bounds, and in between.
ConvertTimestamps ==
    {-1, 0, 1, MinTimestamp - 1, MinTimestamp, MinTimestamp + 1, SampleTimestamp}
    \cup UNION { {c + SecondsPerYear - 1, c + SecondsPerYear, c + SecondsPerYear + 1} :
                 c \in ConvertClocks }

NoFiles == [p \in {} |-> NewFile(NotJson, "owned")]

UnitStart ==
    /\ root_status = "ok"
    /\ sub_readable = TRUE
    /\ log_creatable = TRUE
    /\ files = NoFiles
    /\ metadata_files = <<>>
    /\ Idle

InitConvert ==
    /\ UnitStart
    /\ pc = "call convert_timestamp_for_file_operations"
    /\ arg \in [t : ConvertTimestamps, now : ConvertClocks]
    /\ ret = NoRet

ApplyConvert ==
    /\ pc = "call convert_timestamp_for_file_operations"
    /\ ret' = convert_timestamp_for_file_operations(arg.t, arg.now)
    /\ pc' = "returned"
    /\ UNCHANGED <<env, signal, arg, files, stage, idx, scanned,
                   processing_result, locals, exit_code, console, file_state,
                   writes>>

NextConvert == ApplyConvert

SpecConvert == InitConvert /\ [][NextConvert]_vars

(***************************************************************************)
(* scan_directory on its own: called on any tree of at most MaxFiles sound *)
(* files, the sub-directory listable or not.                               *)
(***************************************************************************)
InitScan ==
    /\ root_status = "ok"
    /\ sub_readable \in BOOLEAN
    /\ log_creatable = TRUE
    /\ \E present \in SUBSET InitialEntries :
         /\ Cardinality(present) <= MaxFiles
         /\ files = TreeOf(present, {}, <<>>)
    /\ metadata_files = <<>>
    /\ Idle
    /\ pc = "call scan_directory"
    /\ arg = NoArg
    /\ ret = NoRet

ApplyScan ==
    /\ pc = "call scan_directory"
    /\ LET found == scan_directory(files, sub_readable)
       IN  /\ metadata_files' = found.metadata_files
           /\ media_files' = found.media_files
    /\ scan_skipped' = WalkSkipped(sub_readable)
    /\ pc' = "returned scan_directory"
    /\ UNCHANGED <<env, signal, unit, files, stage, idx, orphaned_media,
                   processing_result, locals, exit_code, console, file_state,
                   writes>>

NextScan == ApplyScan

SpecScan == InitScan /\ [][NextScan]_vars

(***************************************************************************)
(* detect_orphaned_media_files on its own: called with any two lists of at *)
(* most MaxList paths, whatever the scanner would have put in them.        *)
(***************************************************************************)
OrphanSidecarPaths ==
    { PathJoin(RootDir, NameA \o Suffix), PathJoin(RootDir, NameA \o Suffix \o Suffix),
      PathJoin(SubDir, NameC \o Suffix), PathJoin(RootDir, <<"a", ".json">>) }

OrphanMediaPaths ==
    { PathJoin(RootDir, NameA), PathJoin(RootDir, NameB), PathJoin(SubDir, NameC),
      PathJoin(RootDir, NameA \o Suffix) }

InitOrphans ==
    /\ root_status = "ok"
    /\ sub_readable = TRUE
    /\ log_creatable = TRUE
    /\ files = NoFiles
    /\ metadata_files \in Lists(OrphanSidecarPaths)
    /\ media_files \in Lists(OrphanMediaPaths)
    /\ orphaned_media = <<>>
    /\ stage = "none"
    /\ idx = 0
    /\ processing_result = NewProcessingResult(0)
    /\ timestamp = None
    /\ media_file_path = <<>>
    /\ update_ok = FALSE
    /\ exit_code = -1
    /\ console = <<>>
    /\ file_state = <<>>
    /\ writes = <<>>
    /\ scan_skipped = {}
    /\ interrupted = FALSE
    /\ pc = "call detect_orphaned_media_files"
    /\ arg = NoArg
    /\ ret = NoRet

ApplyOrphans ==
    /\ pc = "call detect_orphaned_media_files"
    /\ orphaned_media' = detect_orphaned_media_files(metadata_files, media_files)
    /\ pc' = "returned detect_orphaned_media_files"
    /\ UNCHANGED <<env, signal, unit, files, stage, idx, metadata_files, media_files,
                   scan_skipped, processing_result, locals, exit_code, console,
                   file_state, writes>>

NextOrphans == ApplyOrphans

SpecOrphans == InitOrphans /\ [][NextOrphans]_vars

(***************************************************************************)
(* update_file_timestamps on its own: called with any candidate timestamp  *)
(* on a.jpg, which is missing, the caller's own, or somebody else's.       *)
(***************************************************************************)
UpdateTrees ==
    { NoFiles }
    \cup { [ p \in {PathJoin(RootDir, NameA)} |-> NewFile(NotJson, perm) ] :
             perm \in {"owned", "foreign"} }

InitUpdate ==
    /\ root_status = "ok"
    /\ sub_readable = TRUE
    /\ log_creatable = TRUE
    /\ files \in UpdateTrees
    /\ metadata_files = <<>>
    /\ media_files = <<>>
    /\ orphaned_media = <<>>
    /\ stage = "none"
    /\ idx = 0
    /\ processing_result = NewProcessingResult(0)
    /\ timestamp = None
    /\ media_file_path = PathJoin(RootDir, NameA)
    /\ update_ok = FALSE
    /\ exit_code = -1
    /\ console = <<>>
    /\ file_state = <<>>
    /\ writes = <<>>
    /\ scan_skipped = {}
    /\ interrupted = FALSE
    /\ pc = "call update_file_timestamps"
    /\ arg \in [t : ConvertTimestamps, now : ClockReadings]
    /\ ret = NoRet

\* The call returns: ret tells whether it returned True, how many times it
\* called os.utime, and which exception it caught.
ApplyUpdate ==
    /\ pc = "call update_file_timestamps"
    /\ LET done == update_file_timestamps(files, media_file_path, arg.t, arg.now)
       IN  /\ files' = done.fs
           /\ writes' = writes \o done.utime
           /\ update_ok' = done.ok
           /\ ret' = [ok |-> done.ok,
                      value |-> IF done.called THEN 1 ELSE 0,
                      error |-> done.caught]
    /\ pc' = "returned update_file_timestamps"
    /\ UNCHANGED <<env, signal, arg, stage, idx, scanned, processing_result,
                   timestamp, media_file_path, exit_code, console, file_state>>

NextUpdate == ApplyUpdate

SpecUpdate == InitUpdate /\ [][NextUpdate]_vars

(***************************************************************************)
(* get_corresponding_media_file on its own: called with any path of at     *)
(* most MaxPathLen name parts, the suffix's parts among them in any place  *)
(* and in another case.                                                    *)
(***************************************************************************)
PathParts == {"a", ".jpg", ".supplemental-metadata", ".json", ".JSON"}

ResolvePaths == UNION { [1..n -> PathParts] : n \in 0..MaxPathLen }

InitResolve ==
    /\ UnitStart
    /\ pc = "call get_corresponding_media_file"
    /\ arg \in [path : ResolvePaths]
    /\ ret = NoRet

ApplyResolve ==
    /\ pc = "call get_corresponding_media_file"
    /\ ret' = get_corresponding_media_file(arg.path)
    /\ pc' = "returned get_corresponding_media_file"
    /\ UNCHANGED <<env, signal, arg, files, stage, idx, scanned,
                   processing_result, locals, exit_code, console, file_state,
                   writes>>

NextResolve == ApplyResolve

SpecResolve == InitResolve /\ [][NextResolve]_vars

(***************************************************************************)
(* parse_metadata_file with its caller: a batch of the one sidecar         *)
(* a.jpg.supplemental-metadata.json, which is missing, unreadable, or any  *)
(* document, up to the branch on what the parser returned.                 *)
(***************************************************************************)
\* The integers the timestamp strings encode.
ParseNumbers ==
    {-1, 0, 1, MinTimestamp, SampleTimestamp, Now0 + SecondsPerYear + 1}

\* The timestamp strings with what they encode: an integer written as str
\* writes it, with a plus sign, with a leading zero; and strings that
\* encode no integer.
ParseTexts ==
    { [text |-> IntToStr(n), encodes |-> Some(n)] : n \in ParseNumbers }
    \cup { [text |-> <<"+">> \o NatToStr(n), encodes |-> Some(n)] :
             n \in { m \in ParseNumbers : m >= 0 } }
    \cup { [text |-> <<"0">> \o NatToStr(n), encodes |-> Some(n)] :
             n \in { m \in ParseNumbers : m >= 0 } }
    \cup { [text |-> t, encodes |-> None] :
             t \in { <<>>, <<"-">>, <<"a", "b", "c">>, <<"1", "2", ".", "5">>,
                     <<"1", "e", "9">> } }

\* The documents: json.load accepts the file or not, 'photoTakenTime' is
\* absent, an object or a list, its 'timestamp' absent, a string or a
\* number.
ParseDocs ==
    [ json : BOOLEAN, ptt : {"absent", "dict", "list"},
      ts : {"absent", "str", "int"}, text : { r.text : r \in ParseTexts } ]

ParsePath == PathJoin(RootDir, NameA \o Suffix)

ParseTrees ==
    { NoFiles }
    \cup { [ p \in {ParsePath} |-> NewFile(doc, perm) ] :
             doc \in ParseDocs, perm \in {"owned", "unreadable"} }

InitParse ==
    /\ root_status = "ok"
    /\ sub_readable = TRUE
    /\ log_creatable = TRUE
    /\ files \in ParseTrees
    /\ metadata_files = <<ParsePath>>
    /\ Idle
    /\ pc = "batch_start"
    /\ arg = NoArg
    /\ ret = NoRet

NextParse ==
    \/ BatchStart
    \/ ParseStage

SpecParse == InitParse /\ [][NextParse]_vars

(***************************************************************************)
(* Properties.                                                             *)
(***************************************************************************)
FailedStates == {"PARSE_FAILED", "RESOLVE_FAILED", "VERIFY_FAILED", "WRITE_FAILED"}

FinalStates == FailedStates \cup {"UNEXPECTED_FAILED", "WRITTEN"}

\* The sidecars of the batch, by position in the input list.
Sidecars == 1..Len(file_state)

\* process_single_metadata_file has returned for sidecar k.
FileDone(k) == Last(file_state[k]) \in FinalStates

\* The batch phase was reached: process_all_metadata_files has started.
BatchReached ==
    pc \in {"batch", "orphan_count", "summary", "exit"} \/ (pc = "exited" /\ idx >= 1)

\* process_all_metadata_files has returned.
BatchReturned ==
    \/ pc \in {"orphan_count", "summary", "exit"}
    \/ pc = "exited" /\ stage = "none" /\ idx >= 1

\* One of ParseStage, ResolveStage, VerifyStage, WriteStage, CountStage can
\* take its step: the pipeline is at one of them, with the locals it reads.
PipelineCanStep ==
    /\ stage \in {"parse", "resolve", "verify", "write", "count"}
    /\ stage \in {"resolve", "verify", "write", "count"} => ~timestamp.is_none
    /\ stage \in {"verify", "write", "count"} => media_file_path # <<>>

\* How far the batch is: sidecars left, then steps left in the current one.
StageRank ==
    CASE stage = "parse" -> 0
      [] stage = "resolve" -> 1
      [] stage = "verify" -> 2
      [] stage = "write" -> 3
      [] stage = "count" -> 4
      [] OTHER -> 5

BatchPosition == 5 * idx + StageRank

C1_State ==
    BatchReached =>
        /\ Len(file_state) = Len(metadata_files)
        /\ idx \in 1..(Len(metadata_files) + 1)
        /\ \A k \in Sidecars :
             /\ (k < idx) <=> FileDone(k)
             /\ k > idx => file_state[k] = <<"PENDING">>
             /\ Cardinality({ j \in 1..Len(file_state[k]) :
                                file_state[k][j] \in FinalStates }) <= 1
        /\ BatchReturned => \A k \in Sidecars : FileDone(k)
        /\ InFile => PipelineCanStep

C1_Step ==
    (pc = "batch" /\ pc' = "batch") =>
        /\ BatchPosition' > BatchPosition
        /\ idx' \in {idx, idx + 1}
        /\ idx' = idx + 1 <=> Last(file_state'[idx]) \in FinalStates
        /\ \A k \in Sidecars : FileDone(k) => file_state'[k] = file_state[k]

\* C1: process_all_metadata_files takes the sidecars of its list one after
\* the other, in list order; whatever the outcome of a sidecar (parsed or
\* not, resolved or not, media missing, write refused, an exception nobody
\* expected) the loop goes on to the next one, never back to one it has
\* finished, every step brings the batch nearer its end, and when the batch
\* returns every sidecar has been processed.
C1_EverySidecarOnceInOrder == []C1_State /\ [][C1_Step]_vars

\* C1's case: the batch returned after a first sidecar that failed and a
\* second that was processed all the same.
C1_Witness ==
    /\ BatchReturned
    /\ Len(file_state) >= 2
    /\ Last(file_state[1]) \in FailedStates \cup {"UNEXPECTED_FAILED"}
    /\ Last(file_state[2]) = "WRITTEN"

\* The states a sidecar has gone through when it ends in a failed state:
\* the stages before the failing one, and nothing after it.
TraceEndingIn(state) ==
    CASE state = "PARSE_FAILED" -> <<"PENDING", "PARSE_FAILED">>
      [] state = "RESOLVE_FAILED" -> <<"PENDING", "PARSED", "RESOLVE_FAILED">>
      [] state = "VERIFY_FAILED" ->
            <<"PENDING", "PARSED", "RESOLVED", "VERIFY_FAILED">>
      [] state = "WRITE_FAILED" ->
            <<"PENDING", "PARSED", "RESOLVED", "VERIFIED", "WRITE_FAILED">>

\* The error strings that carry the media path of the sidecar.
MediaPathTexts ==
    {"Media file not found or not accessible: ",
     "Failed to update timestamps for media file: "}

\* The sidecar an error string identifies: the path in it, or, when the
\* string carries the sidecar's media path, that path with the suffix.
SidecarNamedBy(error) ==
    IF error.text \in MediaPathTexts THEN error.path \o Suffix ELSE error.path

C2_Step ==
    \A k \in Sidecars :
        /\ (Last(file_state[k]) \notin FailedStates
            /\ Last(file_state'[k]) \in FailedStates) =>
              /\ file_state'[k] = TraceEndingIn(Last(file_state'[k]))
              /\ idx = k /\ idx' = k + 1 /\ stage' = "parse"
              /\ files' = files /\ writes' = writes
              /\ processing_result'.failed_updates
                   = processing_result.failed_updates + 1
              /\ processing_result'.successful_updates
                   = processing_result.successful_updates
              /\ Len(processing_result'.errors) = Len(processing_result.errors) + 1
              /\ SubSeq(processing_result'.errors, 1, Len(processing_result.errors))
                   = processing_result.errors
              /\ SidecarNamedBy(Last(processing_result'.errors)) = metadata_files[k]
        /\ Last(file_state[k]) \in FailedStates => file_state'[k] = file_state[k]

\* C2: the step that takes a sidecar into PARSE_FAILED, RESOLVE_FAILED,
\* VERIFY_FAILED or WRITE_FAILED ends the pipeline for that sidecar (the
\* loop moves on, no later stage has run or runs for it, no file is
\* touched), adds exactly one to failed_updates, leaves successful_updates
\* alone and appends exactly one error string, which identifies the sidecar.
C2_FailedStateShortCircuits == [][C2_Step]_vars

\* C2's case: two entries of the list failed in one batch, one on its
\* path, which lacks the suffix, and one on the write.
C2_Witness ==
    /\ BatchReached
    /\ \E j, k \in Sidecars :
         /\ Last(file_state[j]) = "RESOLVE_FAILED"
         /\ Last(file_state[k]) = "WRITE_FAILED"
    /\ processing_result.failed_updates = 2
    /\ Len(processing_result.errors) = 2

\* C3: convert_timestamp_for_file_operations(t) returns t when
\* 631152000 <= t <= now + 31536000, now being the clock value it read, and
\* raises its error for every other t, zero and negative ones included.
C3_ValidatorAcceptsExactlyTheRange ==
    pc = "returned" =>
        /\ ret.ok <=> (631152000 <= arg.t /\ arg.t <= arg.now + 31536000)
        /\ ret.ok => ret.value = arg.t /\ ret.error = ""
        /\ ~ret.ok => ret.error # ""
        /\ arg.t <= 0 => ~ret.ok

\* C3's case: a timestamp exactly on the upper bound was accepted.
C3_Witness ==
    /\ pc = "returned"
    /\ arg.t = arg.now + 31536000
    /\ ret.ok
    /\ ret.value = arg.t

\* What main printed.
Printed(line) == \E i \in 1..Len(console) : console[i] = line

\* The sidecars that ended in a failure, and those whose media was written.
FailedSidecars ==
    { k \in Sidecars : Last(file_state[k]) \in FailedStates \cup {"UNEXPECTED_FAILED"} }

WrittenSidecars == { k \in Sidecars : Last(file_state[k]) = "WRITTEN" }

\* The folder of the end-to-end scenario: a.jpg with its valid sidecar and
\* c.jpg, which has none, nothing else (but the log file the run creates),
\* and nothing going wrong.
MatchedPairAndOrphan ==
    /\ DOMAIN files \ {LogPath}
         = { PathJoin(RootDir, NameA), PathJoin(RootDir, NameA \o Suffix),
             PathJoin(SubDir, NameC) }
    /\ Faults = 0
    /\ ~interrupted

\* C4: the whole tool run on a folder with one matched pair and one media
\* file without a sidecar ends with successful_updates = 1,
\* failed_updates = 0 and media_without_metadata = 1.
C4_MatchedPairAndOrphanCounts ==
    (pc = "exited" /\ Printed("summary") /\ MatchedPairAndOrphan) =>
        /\ processing_result.successful_updates = 1
        /\ processing_result.failed_updates = 0
        /\ processing_result.media_without_metadata = 1

\* Sidecar k parses correctly, and the media file its name implies is not
\* there.
ParsesCorrectly(k) == ~parse_metadata_file(files, metadata_files[k]).is_none

MediaMissing(k) ==
    /\ EndsWith(metadata_files[k], Suffix)
    /\ ~IsFile(files, DropLast(metadata_files[k], Len(Suffix)))

\* The failures up to and including sidecar k: the position of k's error.
FailuresUpTo(k) == Cardinality({ j \in FailedSidecars : j <= k })

\* C5: a sidecar that parses correctly and whose media file does not exist
\* ends in VERIFY_FAILED; it is counted once in failed_updates and has one
\* entry in errors, which names the missing media path; the counters are
\* the numbers of sidecars failed and written, so every sidecar's outcome is
\* counted, and when the batch returns every sidecar after it is done.
C5_MissingMediaFailsAlone ==
    BatchReached =>
        /\ processing_result.failed_updates = Cardinality(FailedSidecars)
        /\ Len(processing_result.errors) = Cardinality(FailedSidecars)
        /\ processing_result.successful_updates = Cardinality(WrittenSidecars)
        /\ \A k \in Sidecars :
             (/\ FileDone(k)
              /\ Last(file_state[k]) # "UNEXPECTED_FAILED"
              /\ MediaMissing(k)
              /\ ParsesCorrectly(k)) =>
                /\ Last(file_state[k]) = "VERIFY_FAILED"
                /\ processing_result.errors[FailuresUpTo(k)]
                     = Error("Media file not found or not accessible: ",
                             DropLast(metadata_files[k], Len(Suffix)))
        /\ BatchReturned => \A k \in Sidecars : FileDone(k)

\* C5's case: the first sidecar's media file is gone, the second sidecar
\* was processed after it and its media file written.
C5_Witness ==
    /\ BatchReturned
    /\ Len(file_state) = 2
    /\ ParsesCorrectly(1) /\ MediaMissing(1)
    /\ Last(file_state[1]) = "VERIFY_FAILED"
    /\ Last(file_state[2]) = "WRITTEN"
    /\ processing_result.failed_updates = 1
    /\ processing_result.successful_updates = 1

\* Every os.utime call that was not followed by another on the same file
\* left the times the file has now.
WrittenTimesKept ==
    \A i \in 1..Len(writes) :
        (\A j \in (i + 1)..Len(writes) : writes[j].path # writes[i].path) =>
            /\ files[writes[i].path].atime = writes[i].time
            /\ files[writes[i].path].mtime = writes[i].time

C6_State ==
    /\ interrupted => pc = "exited"
    /\ WrittenTimesKept

C6_Step ==
    /\ (~interrupted /\ interrupted') =>
          /\ pc' = "exited"
          /\ idx' = idx /\ stage' = stage
          /\ file_state' = file_state
          /\ processing_result' = processing_result
          /\ files' = files /\ writes' = writes
    /\ interrupted =>
          /\ idx' = idx /\ stage' = stage
          /\ file_state' = file_state
          /\ files' = files /\ writes' = writes

\* C6: the step that delivers an interrupt ends the run: the sidecar in
\* hand gets no outcome from the per-file catch-all, the loop does not go
\* on, and from then on no sidecar is processed, no timestamp is written
\* and no file changes, so that every media file written before keeps the
\* times it was given.
C6_InterruptStopsTheBatch == []C6_State /\ [][C6_Step]_vars

\* The run was interrupted inside the loop of process_all_metadata_files.
InterruptedMidBatch == pc = "exited" /\ interrupted /\ stage # "none"

\* C6's case: an interrupt arrived in the middle of the second sidecar,
\* after the first one's media file was written.
C6_Witness ==
    /\ InterruptedMidBatch
    /\ idx = 2
    /\ stage \in {"resolve", "verify", "write", "count"}
    /\ Len(writes) >= 1
    /\ Last(file_state[1]) = "WRITTEN"

\* The run went through the batch and the summary and failed updates made
\* it exit.
CompletedWithFailedUpdates ==
    /\ pc = "exited"
    /\ ~interrupted
    /\ Printed("summary")
    /\ processing_result.failed_updates > 0

C9_SummaryAlwaysPrinted ==
    (pc = "exited" /\ BatchReached) => Printed("summary")

\* How far main is once the batch phase is reached.
PcRank ==
    CASE pc = "batch" -> 1
      [] pc = "orphan_count" -> 2
      [] pc = "summary" -> 3
      [] pc = "exit" -> 4
      [] pc = "exited" -> 5
      [] OTHER -> 0

C9_State ==
    /\ (pc = "exited" /\ BatchReached /\ ~interrupted) => Printed("summary")
    /\ InFile => PipelineCanStep

C9_Step ==
    (BatchReached /\ pc # "exited") =>
        /\ \/ PcRank' > PcRank
           \/ PcRank' = PcRank /\ pc = "batch" /\ BatchPosition' > BatchPosition
        /\ (pc' = "exited" /\ ~interrupted') => Printed("summary")
        /\ Printed("summary") => Printed("summary")'

\* C9, as the code has it: a run that reached the batch phase and was not
\* interrupted has printed the final summary when the process exits, failed
\* files or not.  It gets there: after the batch phase is reached main is
\* never stuck before its exit, every step it takes brings it nearer the
\* summary and then the exit, and only an interrupt makes it exit without
\* the summary.
C9_SummaryPrintedUnlessInterrupted == []C9_State /\ [][C9_Step]_vars

\* C9's case: every sidecar of the batch failed, and the run printed its
\* summary and exited.
C9_Witness ==
    /\ pc = "exited"
    /\ ~interrupted
    /\ Len(file_state) >= 1
    /\ processing_result.failed_updates = Len(file_state)
    /\ Printed("summary")

\* C10: when a directory of the tree cannot be listed, the scan fails: the
\* run exits with a non-zero status, scan_directory has returned nothing,
\* no sidecar is processed and no timestamp is written.
C10_TraversalErrorFailsTheScan ==
    (~sub_readable /\ pc \notin {"validate", "logging", "scan"}) =>
        /\ pc = "exited"
        /\ exit_code # 0
        /\ metadata_files = <<>>
        /\ media_files = <<>>
        /\ file_state = <<>>
        /\ writes = <<>>

\* How often x occurs in a sequence.
Occurrences(seq, x) == Cardinality({ i \in 1..Len(seq) : seq[i] = x })

ImpliedBySomeSidecar(media_file) ==
    \E k \in 1..Len(metadata_files) : metadata_files[k] = media_file \o Suffix

\* The positions of the media list whose path no sidecar implies.
OrphanPositions ==
    { i \in 1..Len(media_files) : ~ImpliedBySomeSidecar(media_files[i]) }

C12_State ==
    pc = "returned detect_orphaned_media_files" =>
        /\ Len(orphaned_media) = Cardinality(OrphanPositions)
        /\ \A i \in OrphanPositions :
             orphaned_media[Cardinality({ j \in OrphanPositions : j <= i })]
               = media_files[i]
        /\ \A j \in 1..Len(orphaned_media) : ~ImpliedBySomeSidecar(orphaned_media[j])

C12_Step ==
    pc = "call detect_orphaned_media_files" =>
        /\ metadata_files' = metadata_files
        /\ media_files' = media_files
        /\ files' = files
        /\ processing_result' = processing_result
        /\ writes' = writes

\* C12: detect_orphaned_media_files returns the media paths that are not
\* the suffix-stripped path of any sidecar, each as often as it is in the
\* media list and in that list's order; a media path some sidecar implies
\* is never returned; the call leaves both lists, the files and the
\* counters as they were.
C12_OrphansAreTheUnpairedMedia == []C12_State /\ [][C12_Step]_vars

\* C12's case: sidecar of a.jpg, media a.jpg and b.jpg: the orphans are
\* exactly b.jpg.
C12_Witness ==
    /\ pc = "returned detect_orphaned_media_files"
    /\ metadata_files = <<PathJoin(RootDir, NameA \o Suffix)>>
    /\ media_files = <<PathJoin(RootDir, NameA), PathJoin(RootDir, NameB)>>
    /\ orphaned_media = <<PathJoin(RootDir, NameB)>>

\* The times of a file are the ones the export left.
TimesUntouched(p) ==
    p \in DOMAIN files => files[p].atime = ExportTime /\ files[p].mtime = ExportTime

HasSidecarSuffix(path) ==
    \E n \in 0..Len(path) : SubSeq(path, 1, n) \o Suffix = path

\* C14: for a path that ends with ".supplemental-metadata.json"
\* get_corresponding_media_file returns a path which, followed by the
\* suffix, is the path it was given; for any other path it raises its error
\* and returns no path.
C14_ResolveRoundTrip ==
    pc = "returned get_corresponding_media_file" =>
        /\ HasSidecarSuffix(arg.path) => (ret.ok /\ ret.value \o Suffix = arg.path)
        /\ ~HasSidecarSuffix(arg.path) => ~ret.ok

\* C14's case: the suffix was taken off a path that ends with it.
C14_Witness ==
    /\ pc = "returned get_corresponding_media_file"
    /\ arg.path = <<"a">> \o Suffix
    /\ ret.ok
    /\ ret.value = <<"a">>

\* The parser has returned for the one sidecar of the batch.
ParseReturned == pc = "batch" /\ Len(file_state[1]) = 2

\* What the timestamp string encodes.
Encoded(text) == (CHOOSE r \in ParseTexts : r.text = text).encodes

\* The sidecar is a readable, parseable document whose 'photoTakenTime' is
\* an object whose 'timestamp' is a string that encodes an integer.
WellFormedSidecar ==
    /\ ParsePath \in DOMAIN files
    /\ files[ParsePath].perm # "unreadable"
    /\ files[ParsePath].doc.json
    /\ files[ParsePath].doc.ptt = "dict"
    /\ files[ParsePath].doc.ts = "str"
    /\ ~Encoded(files[ParsePath].doc.text).is_none

\* C15: parse_metadata_file returns n exactly when the sidecar is a
\* parseable document whose 'photoTakenTime' is an object whose 'timestamp'
\* is a string that encodes the integer n; for every other sidecar (missing
\* or unreadable file, unparseable document, key absent, value not an
\* object, timestamp absent, not a string, not an integer) it returns None,
\* which its caller gets and counts: it does not raise.
C15_ParseReturnsTheEncodedInteger ==
    ParseReturned =>
        /\ WellFormedSidecar =>
              /\ timestamp = Encoded(files[ParsePath].doc.text)
              /\ file_state[1] = <<"PENDING", "PARSED">>
              /\ processing_result.failed_updates = 0
        /\ ~WellFormedSidecar =>
              /\ timestamp = None
              /\ file_state[1] = <<"PENDING", "PARSE_FAILED">>
              /\ processing_result.failed_updates = 1

\* C15's case: the timestamp string "+1571673729" of a well-formed sidecar
\* was parsed to 1571673729.
C15_Witness ==
    /\ ParseReturned
    /\ WellFormedSidecar
    /\ files[ParsePath].doc.text = <<"+">> \o NatToStr(SampleTimestamp)
    /\ timestamp = Some(SampleTimestamp)

\* The log_error messages of the six checks on the document, in the order
\* of the specification's validation sequence.
CheckMessages ==
    << "Invalid JSON format in metadata file",
       "Missing 'photoTakenTime' field",
       "Invalid 'photoTakenTime' format (not a dict)",
       "Missing 'timestamp' field in photoTakenTime",
       "Invalid timestamp format (not a string)",
       "Failed to convert timestamp" >>

\* The checks the sidecar's document fails, by position in that sequence.
FailedChecks ==
    LET doc == files[ParsePath].doc
    IN  { k \in 1..6 :
            \/ k = 1 /\ ~doc.json
            \/ k = 2 /\ doc.ptt = "absent"
            \/ k = 3 /\ doc.ptt = "list"
            \/ k = 4 /\ doc.ts = "absent"
            \/ k = 5 /\ doc.ts = "int"
            \/ k = 6 /\ Encoded(doc.text).is_none }

FirstFailedCheck == CHOOSE k \in FailedChecks : \A j \in FailedChecks : k <= j

\* The sidecar was read and its document failed a check.
DocumentRejected ==
    /\ ParseReturned
    /\ ParsePath \in DOMAIN files
    /\ files[ParsePath].perm # "unreadable"
    /\ FailedChecks # {}

\* The string the batch appends to errors for a sidecar that did not parse.
ParseFailedRecord == Error("Failed to parse metadata file: ", ParsePath)

\* C16, as the specification states it: the six checks are made in order,
\* the first that fails decides, and what the batch records for the sidecar
\* tells which check that was.
C16_BatchRecordTellsTheCheck ==
    DocumentRejected =>
        /\ Last(console) = CheckMessages[FirstFailedCheck]
        /\ Last(processing_result.errors).text = CheckMessages[FirstFailedCheck]

\* C16, as the code has it: the six checks are made in order and the first
\* that fails decides; each has its own log_error message, which is what
\* tells the checks apart.  The parser returns None for all six, and the
\* batch records the same string for all six, "Failed to parse metadata
\* file: " and the sidecar's path.
C16_OnlyTheLogTellsTheCheck ==
    DocumentRejected =>
        /\ Last(console) = CheckMessages[FirstFailedCheck]
        /\ timestamp = None
        /\ processing_result.errors = <<ParseFailedRecord>>

\* C16's case: 'photoTakenTime' is a list and has no 'timestamp': the
\* earlier check is the one reported.
C16_Witness ==
    /\ DocumentRejected
    /\ FailedChecks = {3, 4}
    /\ Last(console) = "Invalid 'photoTakenTime' format (not a dict)"
    /\ processing_result.errors = <<ParseFailedRecord>>

\* The written sidecars in list order: the i-th entry is the position of
\* the i-th sidecar that ended WRITTEN.
WrittenInOrder ==
    LET IsWritten(k) == k \in WrittenSidecars
    IN  SelectSeq([k \in 1..Len(file_state) |-> k], IsWritten)

\* The os.utime call that a write for sidecar k makes: its media path, its
\* timestamp.
WriteFor(k) ==
    [path |-> DropLast(metadata_files[k], Len(Suffix)),
     time |-> parse_metadata_file(files, metadata_files[k]).value]

C17_State ==
    BatchReached =>
        /\ processing_result.successful_updates = Cardinality(WrittenSidecars)
        /\ \A k \in WrittenSidecars :
             /\ file_state[k] = <<"PENDING", "PARSED", "RESOLVED", "VERIFIED", "WRITTEN">>
             /\ files[WriteFor(k).path].atime = WriteFor(k).time
             /\ files[WriteFor(k).path].mtime = WriteFor(k).time
        /\ BatchReturned =>
             /\ Len(writes) = processing_result.successful_updates
             /\ \A i \in 1..Len(writes) : writes[i] = WriteFor(WrittenInOrder[i])

C17_Step ==
    /\ processing_result'.successful_updates # processing_result.successful_updates =>
          /\ processing_result'.successful_updates
               = processing_result.successful_updates + 1
          /\ InFile
          /\ Last(file_state[idx]) = "VERIFIED"
          /\ Last(file_state'[idx]) = "WRITTEN"
    /\ \A k \in Sidecars :
          (Last(file_state[k]) # "WRITTEN" /\ Last(file_state'[k]) = "WRITTEN") =>
              processing_result'.successful_updates
                = processing_result.successful_updates + 1

\* C17: successful_updates goes up by one exactly in the step that takes a
\* sidecar to WRITTEN; a sidecar in WRITTEN has gone through PENDING,
\* PARSED, RESOLVED, VERIFIED in that order and its media file carries the
\* sidecar's timestamp as access and modification time; when the batch
\* returns, successful_updates is the number of os.utime calls made, one per
\* written sidecar with that sidecar's media path and timestamp.
C17_SuccessCountsWrittenSidecars == []C17_State /\ [][C17_Step]_vars

\* C17's case: a batch of two sidecars, both written, has returned.
C17_Witness ==
    /\ BatchReturned
    /\ Len(file_state) = 2
    /\ WrittenSidecars = {1, 2}
    /\ processing_result.successful_updates = 2
    /\ Len(writes) = 2

\* Sidecar k parses, and the validation rejects its timestamp whatever the
\* clock reads during the run.
TimestampOutOfRange(k) ==
    LET parsed == parse_metadata_file(files, metadata_files[k])
    IN  /\ ~parsed.is_none
        /\ \A current_time \in ClockReadings :
             ~convert_timestamp_for_file_operations(parsed.value, current_time).ok

\* The states of the resolution and of the verification.
ResolverStates == {"RESOLVED", "RESOLVE_FAILED", "VERIFIED", "VERIFY_FAILED"}

\* C18: the range validation of the parsed timestamp comes before the media
\* path is resolved and verified: a sidecar whose timestamp is out of range
\* fails on the range check, media file there or not, and never gets to the
\* resolution or the verification.
C18_ValidationBeforeResolution ==
    BatchReached =>
        \A k \in Sidecars :
            TimestampOutOfRange(k) =>
                \A j \in 1..Len(file_state[k]) : file_state[k][j] \notin ResolverStates

\* The failed sidecars in list order.
FailedInOrder ==
    LET HasFailed(k) == k \in FailedSidecars
    IN  SelectSeq([k \in 1..Len(file_state) |-> k], HasFailed)

\* C19: in process_all_metadata_files, with k sidecars processed (the loop
\* is at sidecar k + 1), successful_updates + failed_updates = k and errors
\* has failed_updates entries, the i-th being the one of the i-th sidecar
\* that failed; total_metadata_files is the length of the input list;
\* media_without_metadata is 0 until main sets it after the batch; and when
\* the batch has returned successful_updates + failed_updates =
\* total_metadata_files.
C19_AccumulatorInvariant ==
    BatchReached =>
        /\ processing_result.successful_updates + processing_result.failed_updates
             = idx - 1
        /\ Len(processing_result.errors) = processing_result.failed_updates
        /\ Len(FailedInOrder) = processing_result.failed_updates
        /\ \A i \in 1..Len(processing_result.errors) :
             SidecarNamedBy(processing_result.errors[i])
               = metadata_files[FailedInOrder[i]]
        /\ processing_result.total_metadata_files = Len(metadata_files)
        /\ pc \in {"batch", "orphan_count"} =>
             processing_result.media_without_metadata = 0
        /\ BatchReturned =>
             processing_result.successful_updates + processing_result.failed_updates
               = processing_result.total_metadata_files

\* C19's case: a batch of two sidecars, the first failed and the second
\* written, has returned to main, which has not set the orphan count yet.
C19_Witness ==
    /\ pc = "orphan_count"
    /\ processing_result.total_metadata_files = 2
    /\ FailedInOrder = <<1>>
    /\ processing_result.successful_updates = 1
    /\ processing_result.failed_updates = 1
    /\ orphaned_media # <<>>
    /\ processing_result.media_without_metadata = 0

\* The paths whose times some os.utime call of the run has set.
ChangedPaths == {writes[i].path : i \in 1..Len(writes)}

\* C20: every file whose timestamps the batch changes is in the scanner's
\* media list; the batch never changes the timestamps of a file the scanner
\* classified as a sidecar.
C20_OnlyMediaFilesAreChanged ==
    \A p \in ChangedPaths :
        /\ Occurrences(media_files, p) >= 1
        /\ Occurrences(metadata_files, p) = 0

\* The access and modification time of every file of a tree.
TimesOf(fs) == [p \in DOMAIN fs |-> <<fs[p].atime, fs[p].mtime>>]

\* update_file_timestamps has returned True for the current sidecar, which
\* process_single_metadata_file is about to count.
WriteReturnedTrue == InFile /\ stage = "count" /\ update_ok

\* Every os.utime call that set times belongs to a sidecar that was counted
\* as successful, or is about to be.
C21_State ==
    BatchReached =>
        /\ Len(writes) = Cardinality(WrittenSidecars)
                           + (IF WriteReturnedTrue THEN 1 ELSE 0)
        /\ WrittenTimesKept
        /\ \A p \in DOMAIN files :
             (\A i \in 1..Len(writes) : writes[i].path # p) =>
                 TimesOf(files)[p] = <<ExportTime, ExportTime>>

\* A step that changes a file is the write of the current sidecar; it
\* changes the times of that sidecar's implied media file only, and the
\* sidecar is counted as successful next.  A step that ends a sidecar as
\* failed changes no file, and no step of that sidecar before it did.
C21_Step ==
    /\ files' # files =>
          /\ InFile
          /\ stage = "write"
          /\ update_ok'
          /\ Len(writes') = Len(writes) + 1
          /\ DOMAIN files' = DOMAIN files
          /\ \A p \in DOMAIN files :
               /\ files'[p].doc = files[p].doc
               /\ files'[p].perm = files[p].perm
               /\ p # DropLast(metadata_file_path, Len(Suffix)) =>
                    files'[p] = files[p]
    /\ WriteReturnedTrue => Last(file_state'[idx]) = "WRITTEN"
    /\ \A k \in Sidecars :
          (~FileDone(k) /\ Last(file_state'[k]) \in FailedStates \cup {"UNEXPECTED_FAILED"}) =>
              /\ TimesOf(files') = TimesOf(files)
              /\ ~WriteReturnedTrue

DuplicateFree(list) ==
    \A i, j \in 1..Len(list) : i # j => list[i] # list[j]

\* The media paths the sidecars of the list imply, in list order.
ImpliedMediaPaths ==
    [k \in 1..Len(metadata_files) |->
        get_corresponding_media_file(metadata_files[k]).value]

\* C22: the sidecar list scan_directory produces has no duplicates, two
\* different sidecar paths of it imply two different media paths, no file
\* has its times set by more than one os.utime call of the batch, and when
\* process_all_metadata_files has returned the number of different files
\* written is successful_updates.
C22_NoFileWrittenTwice ==
    BatchReached =>
        /\ DuplicateFree(metadata_files)
        /\ DuplicateFree(ImpliedMediaPaths)
        /\ DuplicateFree(writes)
        /\ Cardinality(ChangedPaths) = Len(writes)
        /\ BatchReturned =>
             Cardinality(ChangedPaths) = processing_result.successful_updates

\* C22's case: the batch has returned with two sidecars written, one of
\* them the sidecar of the other, and two different files were written.
C22_Witness ==
    /\ BatchReturned
    /\ processing_result.successful_updates = 2
    /\ Cardinality(ChangedPaths) = 2
    /\ \E i, j \in WrittenSidecars : metadata_files[j] = metadata_files[i] \o Suffix

====
